---- MODULE Spec2Model ----
(***************************************************************************)
(* Express/Prisma blogging backend: bearer-token middleware (protect),     *)
(* per-user post CRUD with the ownership guard, registration, login and    *)
(* the password-reset flow.                                                *)
(*                                                                         *)
(* A request occupies a slot of reqs.  Every handler is cut at its awaits  *)
(* on the store: one action per store operation, with the synchronous code *)
(* around it.  The clock counts seconds.  Random draws (reset tokens) are  *)
(* taken from a counter: no two draws collide.                             *)
(***************************************************************************)
EXTENDS Integers, Sequences, FiniteSets, TLC

VARIABLES
    users,        \* table "User": id -> row
    posts,        \* table "Post": id -> row
    nextUserId,   \* User.id autoincrement sequence
    nextPostId,   \* Post.id autoincrement sequence
    now,          \* Date.now(), in seconds
    ticks,        \* how often the clock has advanced
    rand,         \* random values drawn so far (crypto.randomBytes)
    jwts,         \* user id -> the bearer token last issued to that user
    reqs,         \* slot -> the request in that slot
    superseded,   \* history: reset tokens overwritten by a later request-reset
    consumed,     \* history: reset tokens a complete-reset has written with
    hist          \* history: user id -> the passwords set and the last reset token

vars == <<users, posts, nextUserId, nextPostId, now, ticks, rand, jwts, reqs,
          superseded, consumed, hist>>

(***************************************************************************)
(* Bounds of the model.                                                    *)
(***************************************************************************)
MaxUsers == 2
MaxPosts == 2
MaxTicks == 1
MaxRand  == 2
MaxSalt  == 1

(***************************************************************************)
(* Program constants, in seconds.                                          *)
(***************************************************************************)
ResetTokenTTL == 600        \* 1000 * 60 * 10 ms
JwtTTL        == 2592000    \* expiresIn: "30d"

Usernames == {"ann", "bob"}
Emails    == {"a@x", "b@x"}
Passwords == {"pw1", "pw2"}
Undefined == "undefined"

\* an address no registration uses
NoOnesEmail == "c@x"

Null   == -1
NoUser == [null |-> TRUE]
NoPost == [null |-> TRUE]

(***************************************************************************)
(* bcryptjs: hash keeps the salt and a digest of the password; compare     *)
(* recomputes the digest from the candidate password and the stored salt.  *)
(***************************************************************************)
Salts == 1..MaxSalt

Digest(password, salt) == <<"bf", salt, password>>

BcryptHash(password, salt) == [salt |-> salt, digest |-> Digest(password, salt)]

BcryptCompare(password, hash) == Digest(password, hash.salt) = hash.digest

\* hash and compare reject an argument that is not a string ("Illegal
\* arguments: undefined, string")
BcryptThrows(password) == password = Undefined

(***************************************************************************)
(* jsonwebtoken: sign({id}, secret, {expiresIn: "30d"}) and verify.        *)
(* The mac is computed over the payload with JWT_SECRET; only the server   *)
(* can compute it, so a client holds valid macs of signed tokens only.     *)
(***************************************************************************)
Mac(id, iat, exp) == <<"HS256", id, iat, exp>>

\* a slip: jwt.sign({}, ...), a payload without the id
generateJWT_emptyPayload(id, t) ==
    [t |-> "jwt", id |-> 0, iat |-> t, exp |-> t + JwtTTL,
     mac |-> Mac(0, t, t + JwtTTL)]

generateJWT(id, t) ==
    [t |-> "jwt", id |-> id, iat |-> t, exp |-> t + JwtTTL,
     mac |-> Mac(id, t, t + JwtTTL)]

EmptyToken   == [t |-> "empty"]
GarbageToken == [t |-> "garbage"]

\* a signed token whose payload id was rewritten by the client
Tamper(tok, id) == [tok EXCEPT !.id = id]

\* a slip: jwt.decode in place of jwt.verify, which checks nothing
JwtVerifies_decodeOnly(tok, t) == tok.t = "jwt"

\* a slip: verify with ignoreExpiration
JwtVerifies_noExpiry(tok, t) ==
    /\ tok.t = "jwt"
    /\ tok.mac = Mac(tok.id, tok.iat, tok.exp)

JwtVerifies(tok, t) ==
    /\ tok.t = "jwt"
    /\ tok.mac = Mac(tok.id, tok.iat, tok.exp)
    /\ t < tok.exp

\* !token: token is undefined (no Bearer header) or the empty string, as
\* split(" ")[1] is for "Bearer  x"
Falsy(tok) == tok.t \in {"undefined", "empty"}

(***************************************************************************)
(* Authorization header values.                                           *)
(***************************************************************************)
NoHeader      == [scheme |-> "none", cred |-> [t |-> "undefined"]]
BasicHeader   == [scheme |-> "Basic", cred |-> GarbageToken]
Bearer(tok)   == [scheme |-> "Bearer", cred |-> tok]

IssuedTokens == {jwts[u] : u \in DOMAIN jwts}

TamperedTokens ==
    {Tamper(tok, id) : tok \in IssuedTokens, id \in DOMAIN jwts} \ IssuedTokens

Headers ==
    {NoHeader, BasicHeader, Bearer(EmptyToken), Bearer(GarbageToken)}
        \cup {Bearer(tok) : tok \in IssuedTokens \cup TamperedTokens}

(***************************************************************************)
(* Requests.                                                               *)
(***************************************************************************)
Idle ==
    [kind |-> "none", pc |-> "idle", hdr |-> NoHeader, id |-> 0,
     title |-> Undefined, username |-> Undefined, email |-> Undefined,
     password |-> Undefined, token |-> 0, user |-> NoUser, post |-> NoPost,
     body |-> Undefined, expiry |-> 0, found |-> 0, nexts |-> 0,
     denied |-> <<>>, errs |-> <<>>, sent |-> <<>>, rejected |-> FALSE,
     mailed |-> FALSE, wrote |-> FALSE,
     \* history, for the properties: the time of the first step, and what
     \* held of the store when the handler looked it up
     at |-> 0, replay |-> FALSE, stale |-> FALSE, match |-> FALSE,
     foreign |-> FALSE, isNew |-> FALSE, isOld |-> FALSE, snap |-> <<>>,
     own |-> FALSE, missing |-> FALSE,
     \* history: an awaited call of the handler threw
     faulted |-> FALSE,
     \* history: no row held the email or the username when the request came
     clear |-> FALSE]

Err(status, msg) == [status |-> status, msg |-> msg]

Res(status, body) == [status |-> status, body |-> body]

JsonUndefined == [json |-> "undefined"]
JsonPost(p)   == [json |-> "post", post |-> p]
JsonMsg(m)    == [json |-> "msg", msg |-> m]
JsonAuth(id, row, tok) ==
    [json |-> "auth", id |-> id, username |-> row.username,
     email |-> row.email, token |-> tok]

Slots == DOMAIN reqs

Free(s) == reqs[s].pc = "idle"

\* the routes behind protect
Protected == {"getAll", "getPost", "createPost", "updatePost", "deletePost", "me"}


(***************************************************************************)
(* The store (Prisma over PostgreSQL).                                     *)
(***************************************************************************)
UserRow(username, email, hash) ==
    [username |-> username, email |-> email, password |-> hash,
     passwordResetToken |-> Null, passwordResetTokenExpiry |-> Null]

\* a slip: postAuthor connected to a fixed user id
PostRow_fixedAuthor(title, body, owner) ==
    [title |-> title, body |-> body, created_by |-> 1]

\* a slip: the body left out of data
PostRow_noBody(title, body, owner) ==
    [title |-> title, body |-> Undefined, created_by |-> owner]

PostRow(title, body, owner) ==
    [title |-> title, body |-> body, created_by |-> owner]

\* prisma.user.findUnique({where: {id}, select: {id, username, email}})
FindIdentity(us, id) ==
    IF id \in DOMAIN us
    THEN [id |-> id, username |-> us[id].username, email |-> us[id].email]
    ELSE NoUser

UserIdsBy(us, field, value) == {u \in DOMAIN us : us[u][field] = value}

\* prisma.post.findUnique({where: {id}})
FindPost(ps, id) ==
    IF id \in DOMAIN ps
    THEN [id |-> id, title |-> ps[id].title, body |-> ps[id].body,
          created_by |-> ps[id].created_by]
    ELSE NoPost

\* a slip: findMany without the where clause
FindManyBy_everyPost(ps, owner) ==
    {FindPost(ps, p) : p \in DOMAIN ps}

\* prisma.post.findMany({where: {created_by: owner}})
FindManyBy(ps, owner) ==
    {FindPost(ps, p) : p \in {q \in DOMAIN ps : ps[q].created_by = owner}}

\* a slip: the update keyed by a fixed id, not by the row looked up
UpdateUser_firstRow(us, u, row) ==
    [us EXCEPT ![CHOOSE v \in DOMAIN us : \A w \in DOMAIN us : v <= w] = row]

\* prisma.user.update({where: <unique key of row u>, data}): one row
UpdateUser(us, u, row) == [us EXCEPT ![u] = row]

\* a slip: the unique index on username left out of the schema
Conflicts_emailOnly(us, username, email) ==
    \E u \in DOMAIN us : us[u].email = email

\* a slip: the unique index on email left out of the schema
Conflicts_usernameOnly(us, username, email) ==
    \E u \in DOMAIN us : us[u].username = username

\* the unique indexes User_email_key and User_username_key
Conflicts(us, username, email) ==
    \E u \in DOMAIN us : us[u].email = email \/ us[u].username = username

(***************************************************************************)
(* protect: what the middleware does with a header, at time t, over the    *)
(* user table us.  try is the body of the if at lines 7-35, tail the if at *)
(* lines 36-42; both run in sequence.                                      *)
(***************************************************************************)
Unauthorized == Err(401, "Unauthorized")
MissingCredential ==
    Err(401, "Request is missing required authentication credential.")

\* a slip: the catch block logs and forwards nothing
protect_silentCatch(hdr, t, us) ==
    LET bearer == hdr.scheme = "Bearer"
        token  == IF bearer THEN hdr.cred ELSE [t |-> "undefined"]
        try    == IF bearer /\ JwtVerifies(token, t)
                  THEN [user |-> FindIdentity(us, token.id), nexts |-> 1,
                        denied |-> <<>>]
                  ELSE [user |-> NoUser, nexts |-> 0, denied |-> <<>>]
        tail   == IF Falsy(token) THEN <<MissingCredential>> ELSE <<>>
    IN  [try EXCEPT !.denied = @ \o tail]

\* a slip: a session table, in which a login replaces the user's token
protect_lastIssuedOnly(hdr, t, us) ==
    LET bearer == hdr.scheme = "Bearer"
        token  == IF bearer THEN hdr.cred ELSE [t |-> "undefined"]
        try    == IF ~bearer
                  THEN [user |-> NoUser, nexts |-> 0, denied |-> <<>>]
                  ELSE IF JwtVerifies(token, t) /\ token \in IssuedTokens
                  THEN [user |-> FindIdentity(us, token.id), nexts |-> 1,
                        denied |-> <<>>]
                  ELSE [user |-> NoUser, nexts |-> 0,
                        denied |-> <<Unauthorized>>]
        tail   == IF Falsy(token) THEN <<MissingCredential>> ELSE <<>>
    IN  [try EXCEPT !.denied = @ \o tail]

protect(hdr, t, us) ==
    LET bearer == hdr.scheme = "Bearer"
        token  == IF bearer THEN hdr.cred ELSE [t |-> "undefined"]
        try    == IF ~bearer
                  THEN [user |-> NoUser, nexts |-> 0, denied |-> <<>>]
                  ELSE IF JwtVerifies(token, t)
                  THEN [user |-> FindIdentity(us, token.id), nexts |-> 1,
                        denied |-> <<>>]
                  ELSE [user |-> NoUser, nexts |-> 0,
                        denied |-> <<Unauthorized>>]
        tail   == IF Falsy(token) THEN <<MissingCredential>> ELSE <<>>
    IN  [try EXCEPT !.denied = @ \o tail]

(***************************************************************************)
(* Arrival of a request on a route.  Routes behind protect start in the    *)
(* middleware, the public ones in their handler.                           *)
(***************************************************************************)
Arrive(s, r) ==
    /\ Free(s)
    /\ reqs' = [reqs EXCEPT ![s] = r]

Put(s, r) == reqs' = [reqs EXCEPT ![s] = r]

\* the request is over (response or error delivered) and leaves its slot
Close(s) ==
    /\ reqs[s].pc = "done"
    /\ Put(s, Idle)
    /\ UNCHANGED <<users, posts, nextUserId, nextPostId, now, ticks, rand,
                   jwts, superseded, consumed, hist>>

Store == <<users, posts, nextUserId, nextPostId>>
History == <<superseded, consumed, hist>>

PostIds == 1..MaxPosts

\* parseInt(req.params.id): the number a decimal segment spells, NaN for a
\* segment that starts with no digit
NaN == -2

Decimals == <<"1", "2", "3", "4", "5", "6", "7", "8", "9">>

ParseInt(segment) ==
    IF \E n \in DOMAIN Decimals : Decimals[n] = segment
    THEN CHOOSE n \in DOMAIN Decimals : Decimals[n] = segment
    ELSE NaN

\* the :id segments of the path: the ids Post rows can have, and a word
Segments == {Decimals[n] : n \in PostIds} \cup {"abc"}

\* the routes behind protect with their parameters: the :id of the path,
\* and the title and body of the JSON body
Calls ==
    {<<kind, 0, Undefined, Undefined>> : kind \in {"getAll", "me"}}
        \cup {<<kind, ParseInt(seg), Undefined, Undefined>> :
                 kind \in {"getPost", "deletePost"}, seg \in Segments}
        \cup {<<"createPost", 0, title, "b1">> : title \in {"t1", Undefined}}
        \cup {<<"updatePost", ParseInt(seg), f[1], f[2]>> :
                 seg \in Segments,
                 f \in {<<"t2", "b2">>, <<Undefined, Undefined>>}}

ReqProtected(s) ==
    \E call \in Calls, hdr \in Headers :
        /\ call[1] = "createPost" => nextPostId <= MaxPosts
        /\ Arrive(s, [Idle EXCEPT !.kind = call[1], !.pc = "protect",
                                  !.hdr = hdr, !.id = call[2],
                                  !.title = call[3], !.body = call[4]])
        /\ UNCHANGED <<Store, now, ticks, rand, jwts, History>>

Protect(s) ==
    LET r   == reqs[s]
        out == protect(r.hdr, now, users)
    IN  /\ r.pc = "protect"
        /\ Put(s, [r EXCEPT !.user = out.user, !.nexts = out.nexts,
                            !.denied = out.denied, !.at = now,
                            !.pc = IF out.nexts > 0 THEN "handler" ELSE "done"])
        /\ UNCHANGED <<Store, now, ticks, rand, jwts, History>>

(***************************************************************************)
(* The ownership guard of asyncGetPost, asyncUpdatePost, asyncDeletePost:  *)
(* the lines between findUnique and the write.  A null req.user makes      *)
(* req.user.id throw inside the try block.                                 *)
(***************************************************************************)
\* a slip: the comparison of created_by with req.user.id left out
OwnershipGuard_noOwnerCheck(post, user) ==
    IF post = NoPost THEN "notFound"
    ELSE IF user = NoUser THEN "typeError"
    ELSE "pass"

OwnershipGuard(post, user) ==
    IF post = NoPost THEN "notFound"
    ELSE IF user = NoUser THEN "typeError"
    ELSE IF post.created_by # user.id THEN "notAuthorized"
    ELSE "pass"

NotFound      == Err(404, "No post with that id was found")
NotAuthorized == Err(401, "You are not authorized")

\* the post variable as the response serialises it
JsonOf(post) == IF post = NoPost THEN JsonUndefined ELSE JsonPost(post)

\* findUnique with the parsed id, then the guard; Prisma rejects a NaN id
\* with a validation error, which lands in the catch block
Resolve(ps, id, user) ==
    IF id = NaN THEN "throws" ELSE OwnershipGuard(FindPost(ps, id), user)

\* history: whether the post asked for is absent, is another user's or is
\* the caller's, and the Post table as it was then
Looked(r, ps) ==
    IF r.id \notin DOMAIN ps
    THEN [r EXCEPT !.missing = TRUE, !.snap = ps]
    ELSE IF r.user = NoUser THEN r
    ELSE IF ps[r.id].created_by # r.user.id
    THEN [r EXCEPT !.foreign = TRUE, !.snap = ps]
    ELSE [r EXCEPT !.own = TRUE, !.snap = ps]

asyncGetPost(s) ==
    LET r     == reqs[s]
        post  == FindPost(posts, r.id)
        guard == Resolve(posts, r.id, r.user)
        g     == Looked(r, posts)
    IN  /\ r.kind = "getPost" /\ r.pc = "handler"
        /\ Put(s, CASE guard = "notFound" ->
                         [g EXCEPT !.errs = Append(@, NotFound), !.pc = "done"]
                    [] guard = "notAuthorized" ->
                         [g EXCEPT !.errs = Append(@, NotAuthorized),
                                   !.pc = "done"]
                    [] OTHER ->
                         [g EXCEPT !.post = post, !.pc = "done",
                                   !.sent = Append(@, Res(200, JsonOf(post)))])
        /\ UNCHANGED <<Store, now, ticks, rand, jwts, History>>

\* asyncUpdatePost and asyncDeletePost up to their write
FindOwned(s) ==
    LET r     == reqs[s]
        post  == FindPost(posts, r.id)
        guard == Resolve(posts, r.id, r.user)
        g     == Looked(r, posts)
    IN  /\ r.kind \in {"updatePost", "deletePost"} /\ r.pc = "handler"
        /\ Put(s, CASE guard = "notFound" ->
                         [g EXCEPT !.errs = Append(@, NotFound), !.pc = "done"]
                    [] guard = "notAuthorized" ->
                         [g EXCEPT !.errs = Append(@, NotAuthorized),
                                   !.pc = "done"]
                    [] guard \in {"typeError", "throws"} ->
                         [g EXCEPT !.post = post, !.pc = "done",
                                   !.sent = Append(@,
                                       IF r.kind = "updatePost"
                                       THEN Res(200, JsonOf(post))
                                       ELSE Res(204, JsonUndefined))]
                    [] OTHER -> [g EXCEPT !.post = post, !.pc = "write"])
        /\ UNCHANGED <<Store, now, ticks, rand, jwts, History>>

\* slips of the update: the title left out of data
UpdatedRow_noTitle(row, title, body) ==
    [row EXCEPT !.body = IF body = Undefined THEN @ ELSE body]

\* prisma.post.update({where: {id}, data: {title, body}}): undefined leaves
\* a column as it is
UpdatedRow(row, title, body) ==
    [row EXCEPT !.title = IF title = Undefined THEN @ ELSE title,
                !.body  = IF body = Undefined THEN @ ELSE body]

asyncUpdatePost(s) ==
    LET r == reqs[s]
    IN  /\ r.kind = "updatePost" /\ r.pc = "write"
        /\ IF r.id \in DOMAIN posts
           THEN /\ posts' = [posts EXCEPT ![r.id] = UpdatedRow(@, r.title, r.body)]
                /\ Put(s, [r EXCEPT !.wrote = TRUE, !.pc = "done",
                                    !.post = FindPost(posts', r.id),
                                    !.sent = Append(@,
                                        Res(200, JsonOf(FindPost(posts', r.id))))])
           ELSE /\ posts' = posts
                /\ Put(s, [r EXCEPT !.pc = "done",
                                    !.sent = Append(@, Res(200, JsonOf(r.post)))])
        /\ UNCHANGED <<users, nextUserId, nextPostId, now, ticks, rand, jwts,
                       History>>

asyncDeletePost(s) ==
    LET r == reqs[s]
    IN  /\ r.kind = "deletePost" /\ r.pc = "write"
        /\ posts' = [p \in DOMAIN posts \ {r.id} |-> posts[p]]
        /\ Put(s, [r EXCEPT !.wrote = (r.id \in DOMAIN posts), !.pc = "done",
                            !.sent = Append(@, Res(204, JsonUndefined))])
        /\ UNCHANGED <<users, nextUserId, nextPostId, now, ticks, rand, jwts,
                       History>>

asyncCreatePost(s) ==
    LET r0 == reqs[s]
        \* history: the Post table as it was
        r  == [r0 EXCEPT !.snap = posts]
    IN  /\ r.kind = "createPost" /\ r.pc = "handler"
        /\ IF r.title = Undefined
           THEN /\ Put(s, [r EXCEPT !.pc = "done",
                               !.errs = Append(@,
                                   Err(404, "Please include a title field"))])
                /\ UNCHANGED <<posts, nextPostId>>
           ELSE IF r.user = NoUser \/ r.user.id \notin DOMAIN users
           THEN /\ Put(s, [r EXCEPT !.pc = "done",
                               !.sent = Append(@, Res(201, JsonUndefined))])
                /\ UNCHANGED <<posts, nextPostId>>
           ELSE /\ posts' = posts @@
                       (nextPostId :> PostRow(r.title, r.body, r.user.id))
                /\ nextPostId' = nextPostId + 1
                /\ Put(s, [r EXCEPT !.wrote = TRUE, !.pc = "done",
                               !.post = FindPost(posts', nextPostId),
                               !.sent = Append(@,
                                   Res(201, JsonOf(FindPost(posts', nextPostId))))])
        /\ UNCHANGED <<users, nextUserId, now, ticks, rand, jwts, History>>

\* posts.slice(0, limit) with no limit given: every row findMany returned
asyncGetAllPosts(s) ==
    LET r == reqs[s]
    IN  /\ r.kind = "getAll" /\ r.pc = "handler"
        /\ IF r.user = NoUser
           THEN Put(s, [r EXCEPT !.pc = "done", !.rejected = TRUE])
           ELSE Put(s, [r EXCEPT !.pc = "done",
                           !.sent = Append(@, Res(200,
                               [json |-> "posts",
                                posts |-> FindManyBy(posts, r.user.id)]))])
        /\ UNCHANGED <<Store, now, ticks, rand, jwts, History>>

asyncGetUserData(s) ==
    LET r == reqs[s]
    IN  /\ r.kind = "me" /\ r.pc = "handler"
        /\ IF r.user = NoUser \/ r.user.id \notin DOMAIN users
           THEN Put(s, [r EXCEPT !.pc = "done", !.rejected = TRUE])
           ELSE Put(s, [r EXCEPT !.pc = "done",
                           !.sent = Append(@, Res(200,
                               [json |-> "me",
                                user |-> FindIdentity(users, r.user.id)]))])
        /\ UNCHANGED <<Store, now, ticks, rand, jwts, History>>

(***************************************************************************)
(* User routes: register, login, request-reset, complete-reset.            *)
(***************************************************************************)
ReqRegister(s) ==
    \E username \in Usernames, email \in Emails, password \in Passwords :
        /\ nextUserId <= MaxUsers \/ Conflicts(users, username, email)
        /\ Arrive(s, [Idle EXCEPT !.kind = "register", !.pc = "handler",
                                  !.username = username, !.email = email,
                                  !.password = password,
                                  !.clear = \A u \in DOMAIN users :
                                      /\ users[u].email # email
                                      /\ users[u].username # username])
        /\ UNCHANGED <<Store, now, ticks, rand, jwts, History>>

ReqLogin(s) ==
    \E username \in Usernames, password \in Passwords :
        /\ Arrive(s, [Idle EXCEPT !.kind = "login", !.pc = "handler",
                                  !.username = username,
                                  !.password = password])
        /\ UNCHANGED <<Store, now, ticks, rand, jwts, History>>

\* the email of the body: one a user may have registered with, or one no
\* user has
\* a login whose body has no password field
ReqLoginNoPassword(s) ==
    \E username \in Usernames :
        /\ Arrive(s, [Idle EXCEPT !.kind = "login", !.pc = "handler",
                                  !.username = username])
        /\ UNCHANGED <<Store, now, ticks, rand, jwts, History>>

ReqForgotPassword(s) ==
    \E email \in Emails \cup {NoOnesEmail} :
        /\ rand < MaxRand
        /\ Arrive(s, [Idle EXCEPT !.kind = "forgot", !.pc = "handler",
                                  !.email = email])
        /\ UNCHANGED <<Store, now, ticks, rand, jwts, History>>

\* the token of the path: one the server generated, or 0, one it never did
ReqResetPassword(s) ==
    \E token \in 0..rand, newPassword \in Passwords :
        /\ Arrive(s, [Idle EXCEPT !.kind = "reset", !.pc = "handler",
                                  !.token = token, !.password = newPassword,
                                  !.replay = (token \in consumed),
                                  !.stale = (token \in superseded)])
        /\ UNCHANGED <<Store, now, ticks, rand, jwts, History>>

\* a complete-reset whose body has no newPassword field
ReqResetNoPassword(s) ==
    \E token \in 0..rand :
        /\ Arrive(s, [Idle EXCEPT !.kind = "reset", !.pc = "handler",
                                  !.token = token,
                                  !.replay = (token \in consumed),
                                  !.stale = (token \in superseded)])
        /\ UNCHANGED <<Store, now, ticks, rand, jwts, History>>

Conflict == Err(400, "Email or username already exists.")

asyncRegisterUser(s) ==
    LET r0 == reqs[s]
        \* history: whether a row held the email or the username, and the
        \* User table as it was then
        r  == [r0 EXCEPT !.at = now, !.snap = users,
                         !.match = \E u \in DOMAIN users :
                                       \/ users[u].email = r0.email
                                       \/ users[u].username = r0.username]
    IN  /\ r.kind = "register" /\ r.pc = "handler"
        /\ IF Conflicts(users, r.username, r.email)
           THEN /\ Put(s, [r EXCEPT !.pc = "done", !.errs = Append(@, Conflict)])
                /\ UNCHANGED <<users, nextUserId, jwts, hist>>
           ELSE \E salt \in Salts :
                /\ users' = users @@
                       (nextUserId :> UserRow(r.username, r.email,
                                              BcryptHash(r.password, salt)))
                /\ nextUserId' = nextUserId + 1
                /\ jwts' = jwts @@ (nextUserId :> generateJWT(nextUserId, now))
                /\ hist' = hist @@
                       (nextUserId :> [pw |-> r.password, old |-> Undefined,
                                       tok |-> Null])
                /\ Put(s, [r EXCEPT !.pc = "done", !.wrote = TRUE,
                               !.found = nextUserId,
                               !.sent = Append(@, Res(201,
                                   JsonAuth(nextUserId, users'[nextUserId],
                                            generateJWT(nextUserId, now))))])
        /\ UNCHANGED <<posts, nextPostId, now, ticks, rand, superseded, consumed>>

\* prisma.user.findUnique({where: {username}}): the id of the row, or 0
FindByUsername(us, username) ==
    IF UserIdsBy(us, "username", username) = {} THEN 0
    ELSE CHOOSE u \in UserIdsBy(us, "username", username) : TRUE

\* a slip: findFirst without the where clause
FindByEmail_anyRow(us, email) ==
    IF DOMAIN us = {} THEN 0 ELSE CHOOSE u \in DOMAIN us : TRUE

FindByEmail(us, email) ==
    IF UserIdsBy(us, "email", email) = {} THEN 0
    ELSE CHOOSE u \in UserIdsBy(us, "email", email) : TRUE

\* a slip: the comparison of the password left out
LoginAccepts_userOnly(us, u, password) == u # 0

\* user && (await bcrypt.compare(password, user.password))
LoginAccepts(us, u, password) ==
    u # 0 /\ BcryptCompare(password, us[u].password)

asyncLoginUser(s) ==
    LET r == reqs[s]
        u == FindByUsername(users, r.username)
        g == [r EXCEPT !.found = u, !.at = now,
                       !.isNew = (u # 0 /\ hist[u].old # Undefined
                                        /\ hist[u].pw = r.password),
                       !.isOld = (u # 0 /\ hist[u].old = r.password)]
    IN  /\ r.kind = "login" /\ r.pc = "handler"
        /\ IF u # 0 /\ BcryptThrows(r.password)
           THEN \* the catch block logs, and the handler returns
                /\ jwts' = jwts
                /\ Put(s, [g EXCEPT !.pc = "done", !.faulted = TRUE])
           ELSE IF LoginAccepts(users, u, r.password)
           THEN /\ jwts' = [jwts EXCEPT ![u] = generateJWT(u, now)]
                /\ Put(s, [g EXCEPT !.pc = "done",
                               !.sent = Append(@, Res(200,
                                   JsonAuth(u, users[u], generateJWT(u, now))))])
           ELSE /\ jwts' = jwts
                \* history: the User table and the tokens issued, as they were
                /\ Put(s, [g EXCEPT !.pc = "done", !.snap = <<users, jwts>>,
                               !.errs = Append(@,
                                   Err(401, "Couldn't find your account."))])
        /\ UNCHANGED <<Store, now, ticks, rand, History>>

ForgotSent == JsonMsg("Password reset link sent to your email.")

\* asyncForgotPassword up to its update: lookup, token and expiry
ForgotLookup(s) ==
    LET r0 == reqs[s]
        u  == FindByEmail(users, r0.email)
        \* history: whether a row held the email, and the User table as it
        \* was when none did
        m  == \E v \in DOMAIN users : users[v].email = r0.email
        r  == [r0 EXCEPT !.match = m, !.snap = IF m THEN <<>> ELSE users]
    IN  /\ r.kind = "forgot" /\ r.pc = "handler"
        /\ IF u = 0
           THEN /\ Put(s, [r EXCEPT !.pc = "done",
                               !.errs = Append(@,
                                   Err(404, "Couldn't find your account."))])
                /\ rand' = rand
           ELSE /\ rand' = rand + 1
                /\ Put(s, [r EXCEPT !.pc = "write", !.found = u, !.at = now,
                               !.token = rand + 1,
                               !.expiry = now + ResetTokenTTL])
        /\ UNCHANGED <<Store, now, ticks, jwts, History>>

\* a slip: the update made conditional on no token being pending
ForgotRow_firstWins(row, token, expiry) ==
    IF row.passwordResetToken # Null THEN row
    ELSE [row EXCEPT !.passwordResetToken = token,
                     !.passwordResetTokenExpiry = expiry]

\* data: {passwordResetToken: resetToken, passwordResetTokenExpiry:
\*     resetTokenExpiry}, one UPDATE statement
ForgotRow(row, token, expiry) ==
    [row EXCEPT !.passwordResetToken = token,
                !.passwordResetTokenExpiry = expiry]

\* prisma.user.update({where: {email}, data: {passwordResetToken, ...Expiry}})
ForgotUpdate(s) ==
    LET r == reqs[s]
        u == FindByEmail(users, r.email)
    IN  /\ r.kind = "forgot" /\ r.pc = "write"
        /\ IF u = 0
           THEN /\ Put(s, [r EXCEPT !.pc = "done",
                               !.sent = Append(@, Res(200, ForgotSent))])
                /\ UNCHANGED <<users, superseded, hist>>
           ELSE /\ users' = UpdateUser(users, u,
                                ForgotRow(users[u], r.token, r.expiry))
                /\ superseded' = superseded \cup
                       ({users[u].passwordResetToken} \ {Null})
                /\ hist' = [hist EXCEPT ![u].tok = r.token]
                /\ Put(s, [r EXCEPT !.pc = "mail", !.wrote = TRUE])
        /\ UNCHANGED <<posts, nextUserId, nextPostId, now, ticks, rand, jwts,
                       consumed>>

\* a slip: the failure of asyncSendEmail passed on to the error handler
ForgotMail_forwardsFailure(s) ==
    LET r == reqs[s]
    IN  /\ r.kind = "forgot" /\ r.pc = "mail"
        /\ \E delivered \in BOOLEAN :
               Put(s, IF delivered
                      THEN [r EXCEPT !.pc = "done", !.mailed = TRUE,
                               !.sent = Append(@, Res(200, ForgotSent))]
                      ELSE [r EXCEPT !.pc = "done",
                               !.errs = Append(@, Err(500, "sendMail"))])
        /\ UNCHANGED <<Store, now, ticks, rand, jwts, History>>

\* await asyncSendEmail(...), which resolves or throws; then the response
ForgotMail(s) ==
    LET r == reqs[s]
    IN  /\ r.kind = "forgot" /\ r.pc = "mail"
        /\ \E delivered \in BOOLEAN :
               Put(s, [r EXCEPT !.pc = "done", !.mailed = delivered,
                          !.sent = Append(@, Res(200, ForgotSent))])
        /\ UNCHANGED <<Store, now, ticks, rand, jwts, History>>

\* slips of the findFirst of asyncResetPassword: no filter on the token (what
\* Prisma does with an undefined value), no filter on the expiry
FindByResetToken_anyToken(us, token, t) ==
    LET hits == {u \in DOMAIN us :
                    /\ us[u].passwordResetTokenExpiry # Null
                    /\ us[u].passwordResetTokenExpiry >= t}
    IN  IF hits = {} THEN 0 ELSE CHOOSE u \in hits : \A v \in hits : u <= v

FindByResetToken_noExpiry(us, token, t) ==
    LET hits == {u \in DOMAIN us : us[u].passwordResetToken = token}
    IN  IF hits = {} THEN 0 ELSE CHOOSE u \in hits : \A v \in hits : u <= v

\* prisma.user.findFirst({where: {passwordResetToken: token,
\*     passwordResetTokenExpiry: {gte: new Date()}}}): the id, or 0
FindByResetToken(us, token, t) ==
    LET hits == {u \in DOMAIN us :
                    /\ us[u].passwordResetToken = token
                    /\ us[u].passwordResetTokenExpiry # Null
                    /\ us[u].passwordResetTokenExpiry >= t}
    IN  IF hits = {} THEN 0 ELSE CHOOSE u \in hits : \A v \in hits : u <= v

InvalidOrExpired == Err(400, "Invalid or expired token.")

\* a slip: a message of its own for a token that is known but expired
ResetLookup_tellsExpired(s) ==
    LET r == reqs[s]
        u == FindByResetToken(users, r.token, now)
        k == \E v \in DOMAIN users : users[v].passwordResetToken = r.token
        m == \E v \in DOMAIN users :
                 /\ users[v].passwordResetToken = r.token
                 /\ users[v].passwordResetTokenExpiry # Null
                 /\ now <= users[v].passwordResetTokenExpiry
        g == [r EXCEPT !.match = m, !.at = now,
                       !.snap = IF m THEN <<>> ELSE users]
    IN  /\ r.kind = "reset" /\ r.pc = "handler"
        /\ IF u = 0
           THEN Put(s, [g EXCEPT !.pc = "done",
                           !.errs = Append(@, IF k THEN Err(400, "Token expired.")
                                              ELSE InvalidOrExpired)])
           ELSE Put(s, [g EXCEPT !.pc = "write", !.found = u])
        /\ UNCHANGED <<Store, now, ticks, rand, jwts, History>>

ResetLookup(s) ==
    LET r == reqs[s]
        u == FindByResetToken(users, r.token, now)
        m == \E v \in DOMAIN users :
                 /\ users[v].passwordResetToken = r.token
                 /\ users[v].passwordResetTokenExpiry # Null
                 /\ now <= users[v].passwordResetTokenExpiry
        g == [r EXCEPT !.match = m, !.at = now,
                       !.snap = IF m THEN <<>> ELSE users]
    IN  /\ r.kind = "reset" /\ r.pc = "handler"
        /\ IF u = 0
           THEN Put(s, [g EXCEPT !.pc = "done",
                           !.errs = Append(@, InvalidOrExpired)])
           ELSE Put(s, [g EXCEPT !.pc = "write", !.found = u])
        /\ UNCHANGED <<Store, now, ticks, rand, jwts, History>>

\* slips of the update of asyncResetPassword: the token left in place, the
\* expiry left in place, the password left out
ResetRow_keepToken(row, hash) ==
    [row EXCEPT !.password = hash]

ResetRow_keepExpiry(row, hash) ==
    [row EXCEPT !.password = hash, !.passwordResetToken = Null]

ResetRow_noPassword(row, hash) ==
    [row EXCEPT !.passwordResetToken = Null,
                !.passwordResetTokenExpiry = Null]

\* prisma.user.update({where: {id}, data: {password, passwordResetToken:
\*     null, passwordResetTokenExpiry: null}})
ResetRow(row, hash) ==
    [row EXCEPT !.password = hash, !.passwordResetToken = Null,
                !.passwordResetTokenExpiry = Null]

ResetDone == Res(200, JsonMsg("Password has been reset successfully."))

ResetUpdate(s) ==
    LET r == reqs[s]
    IN  /\ r.kind = "reset" /\ r.pc = "write"
        /\ IF BcryptThrows(r.password)
           THEN \* bcrypt.hash throws before the update; the catch block logs
                /\ Put(s, [r EXCEPT !.pc = "done", !.faulted = TRUE,
                               !.sent = Append(@, ResetDone)])
                /\ UNCHANGED <<users, consumed, hist>>
           ELSE IF r.found \in DOMAIN users
           THEN \E salt \in Salts :
                /\ users' = UpdateUser(users, r.found,
                                ResetRow(users[r.found],
                                         BcryptHash(r.password, salt)))
                /\ consumed' = consumed \cup {r.token}
                /\ hist' = [hist EXCEPT ![r.found].pw = r.password,
                                        ![r.found].old = hist[r.found].pw]
                /\ Put(s, [r EXCEPT !.pc = "done", !.wrote = TRUE,
                               !.sent = Append(@, ResetDone)])
           ELSE /\ Put(s, [r EXCEPT !.pc = "done",
                               !.sent = Append(@, ResetDone)])
                /\ UNCHANGED <<users, consumed, hist>>
        /\ UNCHANGED <<posts, nextUserId, nextPostId, now, ticks, rand, jwts,
                       superseded>>

(***************************************************************************)
(* The clock, and the store as an external collaborator.                   *)
(***************************************************************************)
Advance(D) ==
    /\ ticks < MaxTicks
    /\ \E d \in D : now' = now + d
    /\ ticks' = ticks + 1
    /\ UNCHANGED <<Store, rand, jwts, reqs, History>>

\* up to and just past the life of a reset token
TickMinutes == Advance({ResetTokenTTL, ResetTokenTTL + 1})

\* up to and just past the life of a bearer token
TickDays == Advance({JwtTTL - 1, JwtTTL})

\* a User row removed in the database; Post_created_by_fkey is ON DELETE
\* RESTRICT, so only a user without posts can go
StoreDeleteUser ==
    \E u \in DOMAIN users :
        /\ \A p \in DOMAIN posts : posts[p].created_by # u
        /\ users' = [v \in DOMAIN users \ {u} |-> users[v]]
        /\ UNCHANGED <<posts, nextUserId, nextPostId, now, ticks, rand, jwts,
                       reqs, History>>

\* what a handler does once the store call it awaits has rejected: the catch
\* blocks log, and the code after them runs.  asyncGetAllPosts then slices
\* an undefined posts, asyncGetUserData has no try block (the promise of
\* either handler rejects); asyncLoginUser returns from its catch block;
\* asyncRegisterUser forwards its 400 for any code other than P2002
Caught(r) ==
    LET f == [r EXCEPT !.pc = "done", !.faulted = TRUE]
    IN  CASE r.kind \in {"getAll", "me"} -> [f EXCEPT !.rejected = TRUE]
          [] r.kind = "getPost" ->
                 [f EXCEPT !.sent = Append(@, Res(200, JsonUndefined))]
          [] r.kind = "createPost" ->
                 [f EXCEPT !.sent = Append(@, Res(201, JsonUndefined))]
          [] r.kind = "updatePost" ->
                 [f EXCEPT !.sent = Append(@, Res(200, JsonOf(r.post)))]
          [] r.kind = "deletePost" ->
                 [f EXCEPT !.sent = Append(@, Res(204, JsonUndefined))]
          [] r.kind = "register" ->
                 [f EXCEPT !.errs = Append(@,
                               Err(400, "Please include all fields."))]
          [] r.kind = "forgot" ->
                 [f EXCEPT !.sent = Append(@, Res(200, ForgotSent))]
          [] r.kind = "reset" -> [f EXCEPT !.sent = Append(@, ResetDone)]
          [] OTHER -> f

\* the store call a handler awaits rejects (connection lost, timeout): the
\* lookup of a request in its handler, the write of one at its write.
\* asyncCreatePost without a title has returned before its store call
StoreThrows(s) ==
    LET r == reqs[s]
    IN  /\ r.pc \in {"handler", "write"}
        /\ ~(r.kind = "createPost" /\ r.title = Undefined)
        /\ Put(s, Caught(r))
        /\ UNCHANGED <<Store, now, ticks, rand, jwts, History>>

(***************************************************************************)
(* Specifications.                                                         *)
(***************************************************************************)
InitStore ==
    /\ users = <<>>
    /\ posts = <<>>
    /\ nextUserId = 1
    /\ nextPostId = 1
    /\ now = 0
    /\ ticks = 0
    /\ rand = 0
    /\ jwts = <<>>
    /\ superseded = {}
    /\ consumed = {}
    /\ hist = <<>>

\* requests are served one after the other
Init == InitStore /\ reqs = [s \in {1} |-> Idle]

Next ==
    \/ TickMinutes
    \/ TickDays
    \/ \E s \in Slots : Close(s)
    \/ \E s \in Slots : ReqProtected(s)
    \/ \E s \in Slots : ReqRegister(s)
    \/ \E s \in Slots : ReqLogin(s)
    \/ \E s \in Slots : ReqForgotPassword(s)
    \/ \E s \in Slots : ReqResetPassword(s)
    \/ \E s \in Slots : Protect(s)
    \/ \E s \in Slots : asyncGetAllPosts(s)
    \/ \E s \in Slots : asyncGetPost(s)
    \/ \E s \in Slots : asyncCreatePost(s)
    \/ \E s \in Slots : FindOwned(s)
    \/ \E s \in Slots : asyncUpdatePost(s)
    \/ \E s \in Slots : asyncDeletePost(s)
    \/ \E s \in Slots : asyncGetUserData(s)
    \/ \E s \in Slots : asyncRegisterUser(s)
    \/ \E s \in Slots : asyncLoginUser(s)
    \/ \E s \in Slots : ForgotLookup(s)
    \/ \E s \in Slots : ForgotUpdate(s)
    \/ \E s \in Slots : ForgotMail(s)
    \/ \E s \in Slots : ResetLookup(s)
    \/ \E s \in Slots : ResetUpdate(s)

Spec == Init /\ [][Next]_vars

(***************************************************************************)
(* The route groups, each from the state in which ann and bob have         *)
(* registered at time 0 (two runs of asyncRegisterUser from Init).         *)
(***************************************************************************)
SeededUsers ==
    (1 :> UserRow("ann", "a@x", BcryptHash("pw1", 1)))
        @@ (2 :> UserRow("bob", "b@x", BcryptHash("pw1", 1)))

InitSeeded ==
    /\ users = SeededUsers
    /\ posts = <<>>
    /\ nextUserId = 3
    /\ nextPostId = 1
    /\ now = 0
    /\ ticks = 0
    /\ rand = 0
    /\ jwts = [u \in {1, 2} |-> generateJWT(u, 0)]
    /\ superseded = {}
    /\ consumed = {}
    /\ hist = [u \in {1, 2} |-> [pw |-> "pw1", old |-> Undefined, tok |-> Null]]
    /\ reqs = [s \in {1} |-> Idle]

\* the post routes and GET /users/me
NextPosts ==
    \/ TickDays
    \/ \E s \in Slots : Close(s)
    \/ \E s \in Slots : ReqProtected(s)
    \/ \E s \in Slots : Protect(s)
    \/ \E s \in Slots : asyncGetAllPosts(s)
    \/ \E s \in Slots : asyncGetPost(s)
    \/ \E s \in Slots : asyncCreatePost(s)
    \/ \E s \in Slots : FindOwned(s)
    \/ \E s \in Slots : asyncUpdatePost(s)
    \/ \E s \in Slots : asyncDeletePost(s)
    \/ \E s \in Slots : asyncGetUserData(s)

SpecPosts == InitSeeded /\ [][NextPosts]_vars

\* the same, over a database whose User rows can be removed
NextStore == NextPosts \/ StoreDeleteUser

SpecStore == InitSeeded /\ [][NextStore]_vars

\* login and the password-reset flow
NextReset ==
    \/ TickMinutes
    \/ \E s \in Slots : Close(s)
    \/ \E s \in Slots : ReqLogin(s)
    \/ \E s \in Slots : asyncLoginUser(s)
    \/ \E s \in Slots : ReqForgotPassword(s)
    \/ \E s \in Slots : ForgotLookup(s)
    \/ \E s \in Slots : ForgotUpdate(s)
    \/ \E s \in Slots : ForgotMail(s)
    \/ \E s \in Slots : ReqResetPassword(s)
    \/ \E s \in Slots : ResetLookup(s)
    \/ \E s \in Slots : ResetUpdate(s)

SpecReset == InitSeeded /\ [][NextReset]_vars

\* the tokens ann and bob got when they registered; a client keeps its
\* token when a later login hands it another
SeedTokens == {generateJWT(u, 0) : u \in DOMAIN SeededUsers}

\* GET /users/me, with no header or with a token the server has issued
ReqGetUserData(s) ==
    \E hdr \in {NoHeader}
                \cup {Bearer(tok) : tok \in IssuedTokens \cup SeedTokens} :
        /\ Arrive(s, [Idle EXCEPT !.kind = "me", !.pc = "protect",
                                  !.hdr = hdr])
        /\ UNCHANGED <<Store, now, ticks, rand, jwts, History>>

\* login, the password-reset flow and a protected route, over the life of
\* a bearer token
NextSession ==
    \/ TickDays
    \/ \E s \in Slots : Close(s)
    \/ \E s \in Slots : ReqLogin(s)
    \/ \E s \in Slots : asyncLoginUser(s)
    \/ \E s \in Slots : ReqForgotPassword(s)
    \/ \E s \in Slots : ForgotLookup(s)
    \/ \E s \in Slots : ForgotUpdate(s)
    \/ \E s \in Slots : ForgotMail(s)
    \/ \E s \in Slots : ReqResetPassword(s)
    \/ \E s \in Slots : ResetLookup(s)
    \/ \E s \in Slots : ResetUpdate(s)
    \/ \E s \in Slots : ReqGetUserData(s)
    \/ \E s \in Slots : Protect(s)
    \/ \E s \in Slots : asyncGetUserData(s)

SpecSession == InitSeeded /\ [][NextSession]_vars

\* request-reset with two requests in flight at a time
InitRace ==
    /\ users = SeededUsers
    /\ posts = <<>>
    /\ nextUserId = 3
    /\ nextPostId = 1
    /\ now = 0
    /\ ticks = 0
    /\ rand = 0
    /\ jwts = [u \in {1, 2} |-> generateJWT(u, 0)]
    /\ superseded = {}
    /\ consumed = {}
    /\ hist = [u \in {1, 2} |-> [pw |-> "pw1", old |-> Undefined, tok |-> Null]]
    /\ reqs = [s \in {1, 2} |-> Idle]

NextRace ==
    \/ TickMinutes
    \/ \E s \in Slots : Close(s)
    \/ \E s \in Slots : ReqForgotPassword(s)
    \/ \E s \in Slots : ForgotLookup(s)
    \/ \E s \in Slots : ForgotUpdate(s)
    \/ \E s \in Slots : ForgotMail(s)

SpecRace == InitRace /\ [][NextRace]_vars

\* complete-reset with two requests in flight at a time, from the state in
\* which a request-reset for ann has persisted its token at time 0 (one run
\* of asyncForgotPassword from InitRace)
InitPending ==
    /\ users = [SeededUsers EXCEPT
                    ![1] = ForgotRow(@, 1, ResetTokenTTL)]
    /\ posts = <<>>
    /\ nextUserId = 3
    /\ nextPostId = 1
    /\ now = 0
    /\ ticks = 0
    /\ rand = 1
    /\ jwts = [u \in {1, 2} |-> generateJWT(u, 0)]
    /\ superseded = {}
    /\ consumed = {}
    /\ hist = [u \in {1, 2} |->
                  [pw |-> "pw1", old |-> Undefined,
                   tok |-> IF u = 1 THEN 1 ELSE Null]]
    /\ reqs = [s \in {1, 2} |-> Idle]

NextTwoResets ==
    \/ TickMinutes
    \/ \E s \in Slots : Close(s)
    \/ \E s \in Slots : ReqResetPassword(s)
    \/ \E s \in Slots : ResetLookup(s)
    \/ \E s \in Slots : ResetUpdate(s)

SpecTwoResets == InitPending /\ [][NextTwoResets]_vars

\* every route but register, over a store whose calls can fail and with
\* bodies that lack the password, from the state in which ann has written a
\* post and asked for a reset at time 0
InitFaults ==
    /\ users = [SeededUsers EXCEPT
                    ![1] = ForgotRow(@, 1, ResetTokenTTL)]
    /\ posts = (1 :> PostRow("t1", "b1", 1))
    /\ nextUserId = 3
    /\ nextPostId = 2
    /\ now = 0
    /\ ticks = 0
    /\ rand = 1
    /\ jwts = [u \in {1, 2} |-> generateJWT(u, 0)]
    /\ superseded = {}
    /\ consumed = {}
    /\ hist = [u \in {1, 2} |->
                  [pw |-> "pw1", old |-> Undefined,
                   tok |-> IF u = 1 THEN 1 ELSE Null]]
    /\ reqs = [s \in {1} |-> Idle]

NextFaults ==
    \/ \E s \in Slots : Close(s)
    \/ \E s \in Slots : ReqProtected(s)
    \/ \E s \in Slots : Protect(s)
    \/ \E s \in Slots : asyncGetAllPosts(s)
    \/ \E s \in Slots : asyncGetPost(s)
    \/ \E s \in Slots : asyncCreatePost(s)
    \/ \E s \in Slots : FindOwned(s)
    \/ \E s \in Slots : asyncUpdatePost(s)
    \/ \E s \in Slots : asyncDeletePost(s)
    \/ \E s \in Slots : asyncGetUserData(s)
    \/ \E s \in Slots : ReqLogin(s)
    \/ \E s \in Slots : asyncLoginUser(s)
    \/ \E s \in Slots : ReqForgotPassword(s)
    \/ \E s \in Slots : ForgotLookup(s)
    \/ \E s \in Slots : ForgotUpdate(s)
    \/ \E s \in Slots : ForgotMail(s)
    \/ \E s \in Slots : ReqResetPassword(s)
    \/ \E s \in Slots : ResetLookup(s)
    \/ \E s \in Slots : ResetUpdate(s)
    \/ \E s \in Slots : ReqLoginNoPassword(s)
    \/ \E s \in Slots : ReqResetNoPassword(s)
    \/ \E s \in Slots : StoreThrows(s)

SpecFaults == InitFaults /\ [][NextFaults]_vars

\* complete-reset next to request-reset, two requests in flight at a time,
\* from the same state
NextResetRace ==
    \/ \E s \in Slots : Close(s)
    \/ \E s \in Slots : ReqForgotPassword(s)
    \/ \E s \in Slots : ForgotLookup(s)
    \/ \E s \in Slots : ForgotUpdate(s)
    \/ \E s \in Slots : ForgotMail(s)
    \/ \E s \in Slots : ReqResetPassword(s)
    \/ \E s \in Slots : ResetLookup(s)
    \/ \E s \in Slots : ResetUpdate(s)

SpecResetRace == InitPending /\ [][NextResetRace]_vars

\* registration with two requests in flight at a time, from the empty
\* database
InitTwoRegistrations == InitStore /\ reqs = [s \in {1, 2} |-> Idle]

NextTwoRegistrations ==
    \/ \E s \in Slots : Close(s)
    \/ \E s \in Slots : ReqRegister(s)
    \/ \E s \in Slots : asyncRegisterUser(s)

SpecTwoRegistrations == InitTwoRegistrations /\ [][NextTwoRegistrations]_vars

\* registration and login, from the empty database
NextAccounts ==
    \/ TickMinutes
    \/ \E s \in Slots : Close(s)
    \/ \E s \in Slots : ReqRegister(s)
    \/ \E s \in Slots : asyncRegisterUser(s)
    \/ \E s \in Slots : ReqLogin(s)
    \/ \E s \in Slots : asyncLoginUser(s)

SpecAccounts == Init /\ [][NextAccounts]_vars

(***************************************************************************)
(* Properties of protect and of the ownership guard, under SpecPosts (and  *)
(* SpecStore where said).                                                  *)
(***************************************************************************)
\* the header carries no credential protect may accept at time t: absent,
\* another scheme, not a JWT, a payload its mac does not cover, or expired
BadCredential(hdr, t) ==
    \/ hdr.scheme # "Bearer"
    \/ hdr.cred.t # "jwt"
    \/ hdr.cred.mac # Mac(hdr.cred.id, hdr.cred.iat, hdr.cred.exp)
    \/ hdr.cred.exp <= t

\* C1: on every protected route, a request whose Authorization header is
\* absent, is not a Bearer header, or carries a malformed, tampered or
\* expired token gets 401 errors from protect and nothing else: the handler
\* is not invoked, sends nothing and writes nothing.
C1_BadCredentialRejected ==
    \A s \in Slots :
        LET r == reqs[s]
        IN  r.kind \in Protected /\ r.pc # "protect"
                /\ BadCredential(r.hdr, r.at) =>
                    /\ r.pc = "done"
                    /\ r.nexts = 0
                    /\ r.denied # <<>>
                    /\ \A i \in 1..Len(r.denied) : r.denied[i].status = 401
                    /\ r.user = NoUser
                    /\ r.errs = <<>> /\ r.sent = <<>> /\ ~r.wrote

\* a signed token with its payload id rewritten is turned away
C1_Witness ==
    \E s \in Slots :
        /\ reqs[s].kind \in Protected
        /\ reqs[s].pc = "done"
        /\ reqs[s].hdr.cred \in TamperedTokens
        /\ reqs[s].denied = <<Unauthorized>>

\* C2: get, update or delete by an authenticated user of a post that exists
\* and belongs to another user ends with the 401 "not authorized" error:
\* nothing is sent, nothing is written and the Post table is as it was.
C2_ForeignPostRefused ==
    \A s \in Slots :
        LET r == reqs[s]
        IN  r.kind \in {"getPost", "updatePost", "deletePost"} /\ r.foreign =>
                /\ r.pc = "done"
                /\ r.errs = <<NotAuthorized>>
                /\ r.sent = <<>>
                /\ ~r.wrote
                /\ posts = r.snap

C2_Witness ==
    \E s \in Slots :
        /\ reqs[s].kind = "deletePost"
        /\ reqs[s].foreign
        /\ reqs[s].pc = "done"
        /\ reqs[s].id \in DOMAIN posts

\* C3: once protect has run, either it invoked the handler and forwarded no
\* error, or it forwarded an error and did not invoke the handler.
C3_HandlerXorError ==
    \A s \in Slots :
        LET r == reqs[s]
        IN  r.kind \in Protected /\ r.pc # "protect" =>
                (r.nexts > 0) <=> (r.denied = <<>>)

C3_Witness ==
    \E s \in Slots :
        /\ reqs[s].kind \in Protected
        /\ reqs[s].pc = "handler"
        /\ reqs[s].nexts = 1
        /\ reqs[s].denied = <<>>

\* C4: protect calls next at most once per request, with or without an
\* error.
C4_NextAtMostOnce ==
    \A s \in Slots :
        reqs[s].kind \in Protected =>
            reqs[s].nexts + Len(reqs[s].denied) <= 1

\* C5: whenever protect has invoked a handler, req.user is the {id,
\* username, email} of the row whose id the token carries (SpecStore).
C5_IdentityResolved ==
    \A s \in Slots :
        LET r == reqs[s]
        IN  r.kind \in Protected /\ r.nexts > 0 =>
                /\ r.user # NoUser
                /\ DOMAIN r.user = {"id", "username", "email"}
                /\ r.user.id = r.hdr.cred.id

(***************************************************************************)
(* Properties of the password-reset flow, under SpecReset.                 *)
(***************************************************************************)
\* complete-reset answered 400 "Invalid or expired token." and wrote nothing
ResetRefused(r) ==
    /\ r.pc = "done"
    /\ r.errs = <<InvalidOrExpired>>
    /\ r.sent = <<>>
    /\ ~r.wrote

\* C6: a complete-reset that writes replaces the password hash and clears
\* the reset token and its expiry in that one update; no row ever holds a
\* token a complete-reset has already written with; and a complete-reset
\* presenting such a token is refused with 400 and writes nothing.
C6_ConsumedTokenIsGone ==
    /\ \A u \in DOMAIN users : users[u].passwordResetToken \notin consumed
    /\ \A s \in Slots :
           LET r == reqs[s]
           IN  r.kind = "reset" =>
                   /\ r.replay /\ r.pc # "handler" => ResetRefused(r)
                   /\ r.wrote =>
                          /\ BcryptCompare(r.password, users[r.found].password)
                          /\ users[r.found].passwordResetToken = Null
                          /\ users[r.found].passwordResetTokenExpiry = Null
                          /\ r.token \in consumed

C6_Witness ==
    \E s \in Slots :
        /\ reqs[s].kind = "reset"
        /\ reqs[s].replay
        /\ reqs[s].pc = "done"

\* C7: a complete-reset presenting a token that a later request-reset has
\* overwritten is refused with 400 and writes nothing, and a complete-reset
\* that writes presented the token persisted last for the user it wrote.
C7_SupersededTokenFails ==
    \A s \in Slots :
        LET r == reqs[s]
        IN  r.kind = "reset" =>
                /\ r.stale /\ r.pc # "handler" =>
                       ResetRefused(r) /\ users = r.snap
                /\ r.wrote => r.token = hist[r.found].tok

\* the first token presented while it would not yet have expired
C7_Witness ==
    \E s \in Slots :
        /\ reqs[s].kind = "reset"
        /\ reqs[s].stale
        /\ reqs[s].pc = "done"
        /\ now < ResetTokenTTL

\* C8: complete-reset goes on to its write exactly when, at its lookup, some
\* row held the presented token with an expiry >= the time of the lookup;
\* otherwise it is refused with 400 and the User table stays as it was.  The
\* expiry request-reset persists is the time of its Date.now() + 10 minutes.
C8_ResetIffValidToken ==
    \A s \in Slots :
        LET r == reqs[s]
        IN  /\ r.kind = "reset" /\ r.pc # "handler" =>
                   /\ r.match <=> r.found # 0
                   /\ r.wrote => r.match
                   /\ r.match /\ r.pc = "done" => r.wrote
                   /\ ~r.match => ResetRefused(r) /\ users = r.snap
            /\ r.kind = "forgot" /\ r.wrote =>
                   /\ users[r.found].passwordResetToken = r.token
                   /\ users[r.found].passwordResetTokenExpiry
                          = r.at + ResetTokenTTL

\* the right token, presented after its expiry
C8_Witness ==
    \E s \in Slots :
        /\ reqs[s].kind = "reset"
        /\ reqs[s].pc = "done"
        /\ ~reqs[s].match
        /\ \E u \in DOMAIN users :
               /\ users[u].passwordResetToken = reqs[s].token
               /\ users[u].passwordResetTokenExpiry < reqs[s].at

\* C9: once a complete-reset has set a user's password, login with that
\* username and the new password answers 200 with a token that verifies to
\* the user's id, and login with the previous password, when it differs,
\* is answered 401 and no token.
C9_LoginAfterReset ==
    \A s \in Slots :
        LET r == reqs[s]
        IN  r.kind = "login" /\ r.pc = "done" =>
                /\ r.isNew =>
                       /\ r.errs = <<>>
                       /\ Len(r.sent) = 1
                       /\ r.sent[1].status = 200
                       /\ r.sent[1].body.json = "auth"
                       /\ r.sent[1].body.id = r.found
                       /\ r.sent[1].body.token.id = r.found
                       /\ JwtVerifies(r.sent[1].body.token, r.at)
                /\ r.isOld /\ ~r.isNew =>
                       /\ r.sent = <<>>
                       /\ Len(r.errs) = 1
                       /\ r.errs[1].status = 401

C9_Witness ==
    \E s \in Slots :
        /\ reqs[s].kind = "login"
        /\ reqs[s].pc = "done"
        /\ reqs[s].isNew
        /\ ~reqs[s].isOld
        /\ reqs[s].sent # <<>>

\* C10: in every row the reset token and its expiry are both null or both
\* set, and both null when no request-reset ever wrote the row or the token
\* written last has been used by a complete-reset.
NoResetPending(u) == hist[u].tok = Null \/ hist[u].tok \in consumed

C10_TokenAndExpiryTogether ==
    \A u \in DOMAIN users :
        /\ users[u].passwordResetToken = Null
               <=> users[u].passwordResetTokenExpiry = Null
        /\ NoResetPending(u) =>
               /\ users[u].passwordResetToken = Null
               /\ users[u].passwordResetTokenExpiry = Null

\* one row after its reset was completed, another with a reset pending
C10_Witness ==
    \E u, v \in DOMAIN users :
        /\ hist[u].tok \in consumed
        /\ users[u].passwordResetToken = Null
        /\ users[v].passwordResetToken # Null
        /\ users[v].passwordResetTokenExpiry # Null

(***************************************************************************)
(* Properties of the post handlers, under SpecPosts.                       *)
(***************************************************************************)
\* a step leaves the owner of every row it keeps, and a row it adds has the
\* next id of the sequence and the identity protect resolved from the
\* token of the createPost request that adds it
OwnerStep ==
    /\ \A p \in DOMAIN posts \cap DOMAIN posts' :
           posts'[p].created_by = posts[p].created_by
    /\ \A p \in DOMAIN posts' \ DOMAIN posts :
           /\ p = nextPostId
           /\ \E s \in Slots :
                  /\ reqs[s].kind = "createPost"
                  /\ reqs[s].pc = "handler"
                  /\ reqs[s].user # NoUser
                  /\ reqs[s].user.id = reqs[s].hdr.cred.id
                  /\ posts'[p].created_by = reqs[s].user.id

\* C11: every Post row has one owner, a User row; the owner of a new row is
\* the authenticated user whose createPost request added it; no step of
\* create, update or delete changes the owner of a row, and ids are not
\* used again.
C11_OwnerNeverChanges ==
    /\ [](\A p \in DOMAIN posts :
              posts[p].created_by \in DOMAIN users /\ p < nextPostId)
    /\ [][OwnerStep]_vars

\* bob's post after bob has updated it
C11_Witness ==
    \E s \in Slots :
        /\ reqs[s].kind = "updatePost"
        /\ reqs[s].wrote
        /\ reqs[s].user.id = 2
        /\ posts[reqs[s].id].created_by = 2
        /\ posts[reqs[s].id].title = "t2"

\* C12: get, update and delete by an authenticated user of a post that
\* exists and is theirs succeed.  get answers 200 with the row and leaves
\* the table; update answers 200 with the row after it took the title and
\* body of the request, and changes that row only; delete answers 204 and
\* removes that row only, and its id then names no row.
C12_OwnerCanGetUpdateDelete ==
    \A s \in Slots :
        LET r == reqs[s]
        IN  r.own /\ r.pc = "done" =>
                /\ r.errs = <<>>
                /\ Len(r.sent) = 1
                /\ r.kind = "getPost" =>
                       /\ r.sent[1] = Res(200, JsonPost(FindPost(r.snap, r.id)))
                       /\ posts = r.snap
                /\ r.kind = "updatePost" =>
                       /\ DOMAIN posts = DOMAIN r.snap
                       /\ \A p \in DOMAIN posts \ {r.id} : posts[p] = r.snap[p]
                       /\ posts[r.id].created_by = r.snap[r.id].created_by
                       /\ posts[r.id].title =
                              IF r.title = Undefined THEN r.snap[r.id].title
                              ELSE r.title
                       /\ posts[r.id].body =
                              IF r.body = Undefined THEN r.snap[r.id].body
                              ELSE r.body
                       /\ r.sent[1] = Res(200, JsonPost(FindPost(posts, r.id)))
                /\ r.kind = "deletePost" =>
                       /\ DOMAIN posts = DOMAIN r.snap \ {r.id}
                       /\ \A p \in DOMAIN posts : posts[p] = r.snap[p]
                       /\ r.id < nextPostId
                       /\ FindPost(posts, r.id) = NoPost
                       /\ r.sent[1] = Res(204, JsonUndefined)

\* the owner deleted one of two posts
C12_Witness ==
    \E s \in Slots :
        /\ reqs[s].kind = "deletePost"
        /\ reqs[s].own
        /\ reqs[s].pc = "done"
        /\ posts # <<>>

\* C13: get, update or delete with a path id that names no Post row ends
\* with the 404 error alone: nothing is sent, the handler goes neither to
\* the ownership comparison nor to its write, and the Post table is as it
\* was.
C13_MissingPostIs404 ==
    \A s \in Slots :
        LET r == reqs[s]
        IN  r.kind \in {"getPost", "updatePost", "deletePost"} /\ r.missing =>
                /\ r.pc = "done"
                /\ r.errs = <<NotFound>>
                /\ r.sent = <<>>
                /\ ~r.wrote
                /\ posts = r.snap

\* the same for the ids parseInt makes a number of
C13_MissingNumberIs404 ==
    \A s \in Slots :
        LET r == reqs[s]
        IN  r.kind \in {"getPost", "updatePost", "deletePost"} /\ r.missing
                /\ r.id # NaN =>
                    /\ r.pc = "done"
                    /\ r.errs = <<NotFound>>
                    /\ r.sent = <<>>
                    /\ ~r.wrote
                    /\ posts = r.snap

\* C16: a token generateJWT issued for a user id expires JwtTTL seconds (30
\* days) after its issuance; presented to protect before that, it verifies
\* and resolves to that id, and presented at or after that, it fails with
\* the 401 error and no handler.
C16_TokenLifetime ==
    /\ \A u \in DOMAIN jwts :
           /\ jwts[u].id = u
           /\ jwts[u].exp = jwts[u].iat + JwtTTL
    /\ \A s \in Slots :
           LET r   == reqs[s]
               tok == r.hdr.cred
           IN  r.kind \in Protected /\ r.pc # "protect"
                   /\ r.hdr.scheme = "Bearer" /\ tok \in IssuedTokens =>
                       /\ r.at < tok.iat + JwtTTL =>
                              /\ r.nexts = 1
                              /\ r.denied = <<>>
                              /\ r.user # NoUser
                              /\ r.user.id = tok.id
                       /\ r.at >= tok.iat + JwtTTL =>
                              /\ r.nexts = 0
                              /\ r.denied = <<Unauthorized>>
                              /\ r.user = NoUser

\* accepted in the last second of the 30 days
C16_Witness ==
    \E s \in Slots :
        /\ reqs[s].kind \in Protected
        /\ reqs[s].hdr.cred \in IssuedTokens
        /\ reqs[s].at = reqs[s].hdr.cred.iat + JwtTTL - 1
        /\ reqs[s].nexts = 1

\* C17: under SpecSession, whatever logins, request-resets and
\* complete-resets the server has served since it issued a token, protect
\* accepts the token at any time before the token's own expiry, resolves it
\* to its user, and GET /users/me answers 200 with that user.
C17_NeverRevoked ==
    \A s \in Slots :
        LET r   == reqs[s]
            tok == r.hdr.cred
        IN  r.kind = "me" /\ r.pc # "protect" /\ r.hdr.scheme = "Bearer"
                /\ tok.mac = Mac(tok.id, tok.iat, tok.exp)
                /\ r.at < tok.exp =>
                    /\ r.nexts = 1
                    /\ r.denied = <<>>
                    /\ r.user = FindIdentity(users, tok.id)
                    /\ r.user # NoUser
                    /\ r.pc = "done" =>
                           r.sent = <<Res(200, [json |-> "me", user |-> r.user])>>

\* the token of the registration, after the password was reset to another
\* one and a later login has issued a second token
C17_Witness ==
    \E s \in Slots :
        LET r == reqs[s]
        IN  /\ r.kind = "me"
            /\ r.pc = "done"
            /\ r.sent # <<>>
            /\ r.hdr.cred \in SeedTokens
            /\ hist[r.hdr.cred.id].old # Undefined
            /\ hist[r.hdr.cred.id].old # hist[r.hdr.cred.id].pw
            /\ jwts[r.hdr.cred.id] # r.hdr.cred

(***************************************************************************)
(* Properties of registration and login, under SpecAccounts.               *)
(***************************************************************************)
\* C14: a registration whose email or username a User row already holds
\* ends with the 400 conflict error alone: nothing is sent, no row is
\* created and the User table is as it was.
C14_DuplicateRegistrationRefused ==
    \A s \in Slots :
        LET r == reqs[s]
        IN  r.kind = "register" /\ r.pc = "done" /\ r.match =>
                /\ r.errs = <<Conflict>>
                /\ r.sent = <<>>
                /\ ~r.wrote
                /\ users = r.snap

\* the username is taken, the email is not
C14_Witness ==
    \E s \in Slots :
        /\ reqs[s].kind = "register"
        /\ reqs[s].pc = "done"
        /\ reqs[s].match
        /\ \E u \in DOMAIN users : users[u].username = reqs[s].username
        /\ \A u \in DOMAIN users : users[u].email # reqs[s].email

\* the response carries a token that verifies at time t and resolves to id
AnswersToken(r, status, id, t) ==
    /\ r.errs = <<>>
    /\ Len(r.sent) = 1
    /\ r.sent[1].status = status
    /\ r.sent[1].body.json = "auth"
    /\ r.sent[1].body.id = id
    /\ r.sent[1].body.token.id = id
    /\ JwtVerifies(r.sent[1].body.token, t)

\* C15: a registration that meets no conflict creates one row, under a new
\* id, with the username, the email and a hash of the password, and
\* answers 201 with a token for that id; a login with the username and the
\* password of a registration answers 200 with a token that verifies and
\* resolves to the id of the row that registration created.
C15_RegisterThenLogin ==
    \A s \in Slots :
        LET r == reqs[s]
        IN  /\ r.kind = "register" /\ r.pc = "done" /\ ~r.match =>
                   /\ r.wrote
                   /\ r.found \notin DOMAIN r.snap
                   /\ DOMAIN users = DOMAIN r.snap \cup {r.found}
                   /\ users[r.found].username = r.username
                   /\ users[r.found].email = r.email
                   /\ BcryptCompare(r.password, users[r.found].password)
                   /\ AnswersToken(r, 201, r.found, r.at)
            /\ r.kind = "login" /\ r.pc = "done" =>
                   \A u \in DOMAIN users :
                       users[u].username = r.username
                           /\ hist[u].pw = r.password =>
                               AnswersToken(r, 200, u, r.at)

\* the second user logs in, some time after registering
C15_Witness ==
    \E s \in Slots :
        /\ reqs[s].kind = "login"
        /\ reqs[s].pc = "done"
        /\ reqs[s].sent # <<>>
        /\ reqs[s].found = 2
        /\ reqs[s].at > 0

(***************************************************************************)
(* Properties of request-reset, under SpecReset.                           *)
(***************************************************************************)
\* C19: a request-reset whose email no User row holds ends with the 404
\* error alone: nothing is sent, no token is drawn, no row is written, no
\* mail is dispatched and the User table is as it was.
C19_UnknownEmailIs404 ==
    \A s \in Slots :
        LET r == reqs[s]
        IN  r.kind = "forgot" /\ r.pc # "handler" /\ ~r.match =>
                /\ r.pc = "done"
                /\ r.errs = <<Err(404, "Couldn't find your account.")>>
                /\ r.sent = <<>>
                /\ r.token = 0
                /\ ~r.wrote
                /\ ~r.mailed
                /\ users = r.snap

\* while another user's reset is pending
C19_Witness ==
    \E s \in Slots :
        /\ reqs[s].kind = "forgot"
        /\ reqs[s].pc = "done"
        /\ ~reqs[s].match
        /\ \E u \in DOMAIN users : users[u].passwordResetToken # Null

\* C20: a request-reset whose email a User row holds writes the token and
\* the expiry before it dispatches the mail, and ends with the one 200
\* response and its generic message, no error forwarded, the token and the
\* expiry still in the row: the same whether asyncSendEmail resolved or
\* threw.
C20_MailFailureIsSilent ==
    \A s \in Slots :
        LET r == reqs[s]
        IN  r.kind = "forgot" /\ r.match =>
                /\ r.pc \in {"mail", "done"} => r.wrote
                /\ r.pc = "done" =>
                       /\ r.sent = <<Res(200, ForgotSent)>>
                       /\ r.errs = <<>>
                       /\ users[r.found].email = r.email
                       /\ users[r.found].passwordResetToken = r.token
                       /\ users[r.found].passwordResetTokenExpiry = r.expiry

\* asyncSendEmail threw
C20_Witness ==
    \E s \in Slots :
        /\ reqs[s].kind = "forgot"
        /\ reqs[s].match
        /\ reqs[s].pc = "done"
        /\ ~reqs[s].mailed
        /\ users[reqs[s].found].passwordResetToken = reqs[s].token

(***************************************************************************)
(* Properties of concurrent requests, under SpecRace.                      *)
(***************************************************************************)
\* the row holds the token and the expiry which the request r persisted
Holds(row, r) ==
    /\ row.passwordResetToken = r.token
    /\ row.passwordResetTokenExpiry = r.expiry

\* C18: when two request-reset calls in flight together have both written
\* the row of one user, the row holds the token and the expiry of exactly
\* one of them, the one that wrote last; a row with a token holds the one
\* persisted last for its user; and the lookup of complete-reset finds the
\* user with the token persisted last, up to its expiry, and no row with a
\* token that was overwritten.
C18_LastWriterWins ==
    /\ \A u \in DOMAIN users :
           users[u].passwordResetToken # Null =>
               users[u].passwordResetToken = hist[u].tok
    /\ \A s1, s2 \in Slots :
           LET r1 == reqs[s1]
               r2 == reqs[s2]
           IN  s1 # s2 /\ r1.kind = "forgot" /\ r2.kind = "forgot"
                   /\ r1.wrote /\ r2.wrote /\ r1.found = r2.found =>
                       /\ r1.token # r2.token
                       /\ Holds(users[r1.found], r1) \/ Holds(users[r1.found], r2)
                       /\ Holds(users[r1.found], r1) <=> hist[r1.found].tok = r1.token
    /\ \A s \in Slots :
           LET r == reqs[s]
           IN  r.kind = "forgot" /\ r.wrote =>
                   FindByResetToken(users, r.token, now) =
                       IF hist[r.found].tok = r.token /\ now <= r.expiry
                       THEN r.found ELSE 0

\* the call that drew its token first wrote last, after a tick of the clock
\* between the two lookups
C18_Witness ==
    \E s1, s2 \in Slots :
        LET r1 == reqs[s1]
            r2 == reqs[s2]
        IN  /\ r1.kind = "forgot" /\ r2.kind = "forgot"
            /\ r1.wrote /\ r2.wrote
            /\ r1.found = r2.found
            /\ r1.token < r2.token
            /\ r1.expiry < r2.expiry
            /\ Holds(users[r1.found], r1)
            /\ r2.token \in superseded

(***************************************************************************)
(* Properties of concurrent registrations, under SpecTwoRegistrations.     *)
(***************************************************************************)
\* C26: emails and usernames are unique, also under concurrent
\* registrations.  In every state no two User rows have the same email and
\* no two have the same username; and of two registrations held side by
\* side whose bodies have the email or the username in common, at most one
\* has created a row.
C26_UniqueUnderConcurrency ==
    /\ \A u, v \in DOMAIN users :
           u # v => /\ users[u].email # users[v].email
                    /\ users[u].username # users[v].username
    /\ \A s1, s2 \in Slots :
           LET r1 == reqs[s1]
               r2 == reqs[s2]
           IN  (/\ s1 # s2
                /\ r1.kind = "register" /\ r2.kind = "register"
                /\ r1.email = r2.email \/ r1.username = r2.username)
                   => ~(r1.wrote /\ r2.wrote)

\* two registrations with the same email and different usernames both came
\* while no row held either; one created its row, the other was refused
C26_Witness ==
    \E s1, s2 \in Slots :
        LET r1 == reqs[s1]
            r2 == reqs[s2]
        IN  /\ s1 # s2
            /\ r1.kind = "register" /\ r2.kind = "register"
            /\ r1.pc = "done" /\ r2.pc = "done"
            /\ r1.clear /\ r2.clear
            /\ r1.email = r2.email /\ r1.username # r2.username
            /\ r1.wrote /\ ~r2.wrote /\ r2.errs = <<Conflict>>
            /\ Cardinality(DOMAIN users) = 2

(***************************************************************************)
(* Properties of login, under SpecAccounts.                                *)
(***************************************************************************)
\* a row has the username, and the password hashes to its stored digest
\* under its stored salt
Matches(us, username, password) ==
    \E u \in DOMAIN us :
        /\ us[u].username = username
        /\ us[u].password.digest = Digest(password, us[u].password.salt)

\* C27: login issues a token only for a known username with its password.
\* Whenever POST /users/login, given a username and a password, is over:
\* if a user has that username and the password matches that user's stored
\* hash, the one outcome is a response with a token signed for that user;
\* otherwise (unknown username, wrong password) the one outcome is the 401
\* error, no response and so no token is sent, and the User table and the
\* tokens issued are as they were.
C27_TokenOnlyForMatchingPassword ==
    \A s \in Slots :
        LET r == reqs[s]
        IN  (r.kind = "login" /\ r.pc = "done"
                /\ r.password \in Passwords) =>
                IF Matches(users, r.username, r.password)
                THEN /\ r.errs = <<>>
                     /\ Len(r.sent) = 1
                     /\ r.sent[1].body.json = "auth"
                     /\ users[r.sent[1].body.id].username = r.username
                     /\ r.sent[1].body.token.id = r.sent[1].body.id
                ELSE /\ r.sent = <<>>
                     /\ r.errs = <<Err(401, "Couldn't find your account.")>>
                     /\ r.snap = <<users, jwts>>

\* a login with the wrong password for a registered username was refused
C27_Witness ==
    \E s \in Slots :
        /\ reqs[s].kind = "login" /\ reqs[s].pc = "done"
        /\ Len(reqs[s].errs) = 1
        /\ \E u \in DOMAIN users :
               /\ users[u].username = reqs[s].username
               /\ users[u].password.digest
                      # Digest(reqs[s].password, users[u].password.salt)

(***************************************************************************)
(* Properties of the post routes, under SpecPosts.                         *)
(***************************************************************************)
\* C23: the list of posts holds only the caller's posts.  Whenever GET /posts
\* has answered, the caller being the user the bearer token of the request was
\* signed for, every post of the response has that user as created_by, and
\* the response holds every post of the table that has: no other user's post
\* is in it, whatever the table holds.
C23_ListHoldsOwnPostsOnly ==
    \A s \in Slots :
        LET r == reqs[s]
        IN  (r.kind = "getAll" /\ r.pc = "done" /\ Len(r.sent) = 1) =>
                /\ r.sent[1].status = 200
                /\ \A p \in r.sent[1].body.posts : p.created_by = r.hdr.cred.id
                /\ {p.id : p \in r.sent[1].body.posts}
                       = {q \in DOMAIN posts :
                              posts[q].created_by = r.hdr.cred.id}

\* ann and bob each own a post, and one of them was sent their list
C23_Witness ==
    \E s \in Slots :
        /\ reqs[s].kind = "getAll" /\ reqs[s].pc = "done"
        /\ Len(reqs[s].sent) = 1
        /\ Cardinality(reqs[s].sent[1].body.posts) = 1
        /\ \E p, q \in DOMAIN posts :
               /\ posts[p].created_by = reqs[s].hdr.cred.id
               /\ posts[q].created_by # reqs[s].hdr.cred.id

\* C28: what create-post does.  Whenever POST /posts has passed protect and
\* is over: with a title in the body, the Post table has exactly one row it
\* did not have, that row has the title and the body of the request and the
\* user the bearer token was signed for as created_by, every other row is as
\* it was, and the answer is 201 with the row; without a title, the one
\* outcome is the "Please include a title field" error and the table is as
\* it was.
C28_CreateMakesOneOwnedRow ==
    \A s \in Slots :
        LET r == reqs[s]
        IN  (r.kind = "createPost" /\ r.pc = "done" /\ r.nexts > 0) =>
                IF r.title # Undefined
                THEN /\ Cardinality(DOMAIN posts \ DOMAIN r.snap) = 1
                     /\ \A p \in DOMAIN r.snap :
                            p \in DOMAIN posts /\ posts[p] = r.snap[p]
                     /\ \A n \in DOMAIN posts \ DOMAIN r.snap :
                            /\ posts[n] = [title |-> r.title, body |-> r.body,
                                           created_by |-> r.hdr.cred.id]
                            /\ r.sent = <<Res(201, JsonPost(
                                   [id |-> n, title |-> r.title,
                                    body |-> r.body,
                                    created_by |-> r.hdr.cred.id]))>>
                     /\ r.errs = <<>>
                ELSE /\ posts = r.snap
                     /\ r.sent = <<>>
                     /\ r.errs = <<Err(404, "Please include a title field")>>

\* a post was created next to one of another user
C28_Witness ==
    \E s \in Slots :
        /\ reqs[s].kind = "createPost" /\ reqs[s].pc = "done"
        /\ reqs[s].wrote
        /\ \E p \in DOMAIN reqs[s].snap :
               reqs[s].snap[p].created_by # reqs[s].hdr.cred.id
        /\ Cardinality(DOMAIN posts) = Cardinality(DOMAIN reqs[s].snap) + 1

(***************************************************************************)
(* Properties of the handlers when a call they await throws, under         *)
(* SpecFaults.                                                             *)
(***************************************************************************)
\* the controllers the statement on internal failures names
Controllers ==
    {"getPost", "createPost", "updatePost", "deletePost", "login", "forgot",
     "reset"}

\* C22: an internal failure is a generic 500.  Whenever a store call or a
\* hashing step of one of these controllers has thrown, the request ends with
\* one error of status 500 forwarded to the error handler and with no
\* response sent, so never with a success status.
C22_FailureIs500 ==
    \A s \in Slots :
        LET r == reqs[s]
        IN  (r.kind \in Controllers /\ r.pc = "done" /\ r.faulted) =>
                /\ r.sent = <<>>
                /\ Len(r.errs) = 1
                /\ r.errs[1].status = 500

\* the request got as far as its handler
ReachedHandler(r) == r.kind \in Protected => r.nexts > 0

\* C29: one outcome per request.  Every request that reached its handler and
\* is over has exactly one outcome, a response sent or an error forwarded to
\* the error handler, and its handler did not end in a rejected promise;
\* also when the lookup or the password comparison threw.
C29_ExactlyOneOutcome ==
    \A s \in Slots :
        LET r == reqs[s]
        IN  (r.pc = "done" /\ ReachedHandler(r)) =>
                /\ Len(r.sent) + Len(r.errs) = 1
                /\ ~r.rejected

\* C30: the 200 of complete-reset tells the truth.  Whenever POST
\* /users/forgot-password/:token has answered with the success message, the
\* row it looked up holds a hash of the new password and has neither reset
\* token nor expiry.
C30_SuccessMeansReset ==
    \A s \in Slots :
        LET r == reqs[s]
        IN  (r.kind = "reset" /\ r.pc = "done" /\ r.sent = <<ResetDone>>) =>
                /\ r.found \in DOMAIN users
                /\ users[r.found].password.digest
                       = Digest(r.password, users[r.found].password.salt)
                /\ users[r.found].passwordResetToken = Null
                /\ users[r.found].passwordResetTokenExpiry = Null

(***************************************************************************)
(* Properties of concurrent complete-resets, under SpecTwoResets.          *)
(***************************************************************************)
\* what the caller of a request gets: the errors forwarded and the
\* responses sent
Outcome(r) == <<r.errs, r.sent>>

\* C21: any two complete-resets that found no row with their token and an
\* expiry still ahead get the same outcome, the 400 error with the one
\* message and no response body, whether no row held the token or a row
\* held it with the expiry passed.
C21_RefusalsAlike ==
    \A s1, s2 \in Slots :
        LET r1 == reqs[s1]
            r2 == reqs[s2]
        IN  r1.kind = "reset" /\ r2.kind = "reset"
                /\ r1.pc = "done" /\ r2.pc = "done"
                /\ ~r1.match /\ ~r2.match =>
                    /\ Outcome(r1) = Outcome(r2)
                    /\ Len(r1.errs) = 1
                    /\ r1.errs[1].status = 400
                    /\ r1.sent = <<>>

\* one with a token no row holds, one with ann's token after its expiry
C21_Witness ==
    \E s1, s2 \in Slots :
        LET r1 == reqs[s1]
            r2 == reqs[s2]
        IN  /\ r1.kind = "reset" /\ r2.kind = "reset"
            /\ r1.pc = "done" /\ r2.pc = "done"
            /\ ~r1.match /\ ~r2.match
            /\ \A u \in DOMAIN users : users[u].passwordResetToken # r1.token
            /\ \E u \in DOMAIN users :
                   /\ users[u].passwordResetToken = r2.token
                   /\ users[u].passwordResetTokenExpiry < r2.at

\* C24: of two complete-resets in flight with the same token, at most one
\* writes the password and answers 200.
C24_TokenUsedOnce ==
    \A s1, s2 \in Slots :
        LET r1 == reqs[s1]
            r2 == reqs[s2]
        IN  s1 # s2 /\ r1.kind = "reset" /\ r2.kind = "reset"
                /\ r1.token = r2.token =>
                    ~(r1.wrote /\ r2.wrote)

(***************************************************************************)
(* Properties of a complete-reset next to a request-reset, under           *)
(* SpecResetRace.                                                          *)
(***************************************************************************)
\* C25: a superseded token never changes the password.  Whenever a
\* complete-reset has written the password, the token it presented had not
\* been overwritten on the user row by a request-reset that persisted a
\* newer one (a token is overwritten only while it is on the row, so only
\* before the write of the completion).
C25_SupersededTokenNeverWrites ==
    \A s \in Slots :
        LET r == reqs[s]
        IN  (r.kind = "reset" /\ r.wrote) => r.token \notin superseded

(***************************************************************************)
(* The frame of the password-reset flow, under SpecReset.                  *)
(***************************************************************************)
\* what a step may do to the User table: no row comes or goes, no row's
\* email or username changes, and a row changes only in the write of a
\* request-reset whose email is the row's, or in the write of a
\* complete-reset whose token is the one persisted on the row
FrameStep ==
    /\ DOMAIN users' = DOMAIN users
    /\ \A u \in DOMAIN users :
           /\ users'[u].email = users[u].email
           /\ users'[u].username = users[u].username
           /\ users'[u] # users[u] =>
                  \E s \in Slots :
                      LET r == reqs[s]
                      IN  /\ r.pc = "write" /\ reqs'[s].wrote
                          /\ \/ r.kind = "forgot"
                                   /\ users[u].email = r.email
                             \/ r.kind = "reset"
                                   /\ users[u].passwordResetToken = r.token

\* C31: request-reset and complete-reset change one row only.  Every step
\* of the flow leaves every user's id, email and username as they were, and
\* leaves the password hash, reset token and expiry of every user but the
\* one the request resolves to (by its email, by the token persisted on the
\* row) as they were.
C31_OnlyResolvedRowChanges == [][FrameStep]_vars

\* a complete-reset has rewritten the row of one user while the other user
\* has a token pending, and a request-reset has set that other token
C31_Witness ==
    \E s \in Slots, v \in DOMAIN users :
        /\ reqs[s].kind = "reset" /\ reqs[s].pc = "done" /\ reqs[s].wrote
        /\ v # reqs[s].found
        /\ users[v].passwordResetToken # Null
        /\ users[reqs[s].found].passwordResetToken = Null

====
